---- MODULE Spec2Model ----
(***************************************************************************)
(* ErisXOrderBookManager (market_maker_keeper/erisx_market_maker_keeper.py) *)
(* place_order and cancel_orders, called by several threads, as a state    *)
(* machine.  One action per statement group of the two methods; a group    *)
(* that runs inside "with self._lock" is one atomic step guarded by the    *)
(* lock being free, except the placement attempt, which holds the lock     *)
(* across the call of the factory.                                         *)
(* SmartGasPrice (market_maker_keeper/gas.py) is a second state machine,   *)
(* GasSpec: an instance is constructed and get_gas_price is called once.   *)
(***************************************************************************)
EXTENDS Integers, Sequences, FiniteSets, TLC

\* ---- bounds: threads, attempts (factories and cancel_order_function calls)
\* requested in a run, order ids, length of a list handed to cancel_orders ----
NThreads == 2
MaxAttempts == 2
NOrders  == 2
MaxLen   == 2

Threads  == 1..NThreads
OrderIds == 1..NOrders

\* the lists a caller can hand to cancel_orders: every list of at most
\* MaxLen orders, the empty list and lists naming an order twice included
OrderLists == UNION { [1..n -> OrderIds] : n \in 0..MaxLen }

PlaceOutcomes  == {"order", "null", "raise"}
CancelOutcomes == {"true", "false", "raise"}

VARIABLES
    lock,                      \* self._lock: 0 = free, else the holding thread
    currently_placing_orders,  \* self._currently_placing_orders
    orders_placed,             \* self._orders_placed
    order_ids_cancelling,      \* self._order_ids_cancelling
    order_ids_cancelled,       \* self._order_ids_cancelled
    pc,                        \* per thread: the line it is about to execute,
                               \* "idle" outside a call, "raised" after a
                               \* call that ended with an exception
    orders,                    \* per thread: the argument of cancel_orders
    idx,                       \* per thread: position of the for loop (line 90)
    trace,                     \* per thread: what the current/last call did
    out,                       \* per thread: how its latest attempt ended
    attempts                   \* attempts requested by the calls made so far

\* the state of an ErisXOrderBookManager and of the threads calling it
manager == <<lock, currently_placing_orders, orders_placed, order_ids_cancelling,
             order_ids_cancelled, pc, orders, idx, trace, out, attempts>>

\* SmartGasPrice (market_maker_keeper/gas.py): the fields of an instance and
\* the position, argument, local variable and result of a get_gas_price call
VARIABLES
    gas_station,               \* self.gas_station: the feed chosen, or None
    fixed_gas,                 \* self.fixed_gas
    every_secs,                \* self.every_secs
    max_price,                 \* self.max_price
    gpc,                       \* the line get_gas_price is about to execute,
                               \* "idle" outside a call, "raised" after a
                               \* call that ended with an exception,
                               \* "init_raised" after a construction that
                               \* ended with an exception (no instance)
    time_elapsed,              \* the argument of the current/last call
    fast_price,                \* its local variable fast_price (line 72)
    gas_price                  \* what the last call returned

gas == <<gas_station, fixed_gas, every_secs, max_price, gpc, time_elapsed,
         fast_price, gas_price>>

vars == <<manager, gas>>

registry == <<currently_placing_orders, orders_placed, order_ids_cancelling,
              order_ids_cancelled>>

Ev(e, i) == [ev |-> e, id |-> i]

Log(t, e) == trace' = [trace EXCEPT ![t] = Append(@, e)]

Goto(t, l) == pc' = [pc EXCEPT ![t] = l]

\* the Order a successful factory of thread t returns: a new order, told from
\* every other one by the thread and the attempt that placed it
NewOrder(t) == [by |-> t, no |-> attempts]

\* self._report_order_book_updated(): one snapshot published by thread t
ReportOrderBookUpdated(t) == Log(t, Ev("pub", 0))

ManagerInit ==
    /\ lock = 0
    /\ currently_placing_orders = 0
    /\ orders_placed = <<>>
    /\ order_ids_cancelling = {}
    /\ order_ids_cancelled = {}
    /\ pc = [t \in Threads |-> "idle"]
    /\ orders = [t \in Threads |-> <<>>]
    /\ idx = [t \in Threads |-> 0]
    /\ trace = [t \in Threads |-> <<>>]
    /\ out = [t \in Threads |-> "none"]
    /\ attempts = 0

\* python's None, and a value that is not there yet
None == <<>>

\* no SmartGasPrice has been constructed, no get_gas_price call is made
NoSmartGasPrice ==
    /\ gas_station = None
    /\ fixed_gas = None
    /\ every_secs = 0
    /\ max_price = 0
    /\ gpc = "idle"
    /\ time_elapsed = 0
    /\ fast_price = None
    /\ gas_price = None

Init == ManagerInit /\ NoSmartGasPrice

\* ---------------------------------------------------------------- place_order

\* a thread calls place_order(place_order_function): one attempt
CallPlaceOrder(t) ==
    /\ pc[t] = "idle"
    /\ attempts < MaxAttempts
    /\ attempts' = attempts + 1
    /\ Goto(t, "p53")
    /\ trace' = [trace EXCEPT ![t] = <<>>]
    /\ out' = [out EXCEPT ![t] = "none"]
    /\ orders' = [orders EXCEPT ![t] = <<>>]
    /\ idx' = [idx EXCEPT ![t] = 0]
    /\ UNCHANGED <<lock, registry>>
    /\ UNCHANGED gas

\* lines 53-54: with self._lock: self._currently_placing_orders += 1
PlaceIncrement(t) ==
    /\ pc[t] = "p53"
    /\ lock = 0
    /\ currently_placing_orders' = currently_placing_orders + 1
    /\ Log(t, Ev("inc", 0))
    /\ Goto(t, "p57")
    /\ UNCHANGED <<lock, orders_placed, order_ids_cancelling,
                   order_ids_cancelled, orders, idx, out, attempts>>
    /\ UNCHANGED gas

\* variant of PlaceReportBefore: no snapshot before the attempt
PlaceReportBefore_Silent(t) ==
    /\ pc[t] = "p57"
    /\ Goto(t, "p59")
    /\ UNCHANGED <<lock, registry, orders, idx, trace, out, attempts>>
    /\ UNCHANGED gas

\* line 57: self._report_order_book_updated()
PlaceReportBefore(t) ==
    /\ pc[t] = "p57"
    /\ ReportOrderBookUpdated(t)
    /\ Goto(t, "p59")
    /\ UNCHANGED <<lock, registry, orders, idx, out, attempts>>
    /\ UNCHANGED gas

\* variant of PlaceAttemptBegin: the factory starts without waiting for the lock
PlaceAttemptBegin_NoLock(t) ==
    /\ pc[t] = "p59"
    /\ lock' = t
    /\ Log(t, Ev("begin", 0))
    /\ Goto(t, "p61")
    /\ UNCHANGED <<registry, orders, idx, out, attempts>>
    /\ UNCHANGED gas

\* lines 59-61: with self._lock: the lock is taken and the factory starts
PlaceAttemptBegin(t) ==
    /\ pc[t] = "p59"
    /\ lock = 0
    /\ lock' = t
    /\ Log(t, Ev("begin", 0))
    /\ Goto(t, "p61")
    /\ UNCHANGED <<registry, orders, idx, out, attempts>>
    /\ UNCHANGED gas

\* variant of PlaceAttemptEnd: the decrement is not in a finally block,
\* an exception of the factory skips it
PlaceAttemptEnd_SkipsDecrement(t) ==
    /\ pc[t] = "p61"
    /\ lock = t
    /\ \E r \in PlaceOutcomes :
         /\ IF r = "order"
              THEN orders_placed' = Append(orders_placed, NewOrder(t))
              ELSE orders_placed' = orders_placed
         /\ Log(t, Ev("end", 0))
         /\ out' = [out EXCEPT ![t] = r]
         /\ Goto(t, IF r = "raise" THEN "p71" ELSE "p69")
    /\ lock' = 0
    /\ UNCHANGED <<currently_placing_orders, order_ids_cancelling,
                   order_ids_cancelled, orders, idx, attempts>>
    /\ UNCHANGED gas

\* variant of PlaceAttemptEnd: no except clause, the exception of the
\* factory reaches the caller
PlaceAttemptEnd_Propagates(t) ==
    /\ pc[t] = "p61"
    /\ lock = t
    /\ \E r \in PlaceOutcomes :
         /\ IF r = "order"
              THEN orders_placed' = Append(orders_placed, NewOrder(t))
              ELSE orders_placed' = orders_placed
         /\ Log(t, Ev("end", 0))
         /\ out' = [out EXCEPT ![t] = r]
         /\ Goto(t, IF r = "raise" THEN "raised" ELSE "p69")
    /\ lock' = 0
    /\ UNCHANGED <<currently_placing_orders, order_ids_cancelling,
                   order_ids_cancelled, orders, idx, attempts>>
    /\ UNCHANGED gas

\* variant of PlaceAttemptEnd: the new order is put at the head of
\* orders_placed (insert(0, new_order) in place of append)
PlaceAttemptEnd_Prepends(t) ==
    /\ pc[t] = "p61"
    /\ lock = t
    /\ \E r \in PlaceOutcomes :
         /\ IF r = "order"
              THEN orders_placed' = <<NewOrder(t)>> \o orders_placed
              ELSE orders_placed' = orders_placed
         /\ Log(t, Ev("end", 0))
         /\ out' = [out EXCEPT ![t] = r]
    /\ lock' = 0
    /\ Goto(t, "p69")
    /\ UNCHANGED <<currently_placing_orders, order_ids_cancelling,
                   order_ids_cancelled, orders, idx, attempts>>
    /\ UNCHANGED gas

\* lines 61-67: the factory ends: it returns an order (appended, line 65),
\* returns None, or raises (caught at line 66); the with block releases
PlaceAttemptEnd(t) ==
    /\ pc[t] = "p61"
    /\ lock = t
    /\ \E r \in PlaceOutcomes :
         /\ IF r = "order"
              THEN orders_placed' = Append(orders_placed, NewOrder(t))
              ELSE orders_placed' = orders_placed
         /\ Log(t, Ev("end", 0))
         /\ out' = [out EXCEPT ![t] = r]
    /\ lock' = 0
    /\ Goto(t, "p69")
    /\ UNCHANGED <<currently_placing_orders, order_ids_cancelling,
                   order_ids_cancelled, orders, idx, attempts>>
    /\ UNCHANGED gas

\* variant of PlaceDecrement: the counter is reset, not decremented
PlaceDecrement_Resets(t) ==
    /\ pc[t] = "p69"
    /\ lock = 0
    /\ currently_placing_orders' = 0
    /\ Log(t, Ev("dec", 0))
    /\ Goto(t, "p71")
    /\ UNCHANGED <<lock, orders_placed, order_ids_cancelling,
                   order_ids_cancelled, orders, idx, out, attempts>>
    /\ UNCHANGED gas

\* lines 68-70: finally: with self._lock: self._currently_placing_orders -= 1
PlaceDecrement(t) ==
    /\ pc[t] = "p69"
    /\ lock = 0
    /\ currently_placing_orders' = currently_placing_orders - 1
    /\ Log(t, Ev("dec", 0))
    /\ Goto(t, "p71")
    /\ UNCHANGED <<lock, orders_placed, order_ids_cancelling,
                   order_ids_cancelled, orders, idx, out, attempts>>
    /\ UNCHANGED gas

\* line 71: self._report_order_book_updated(), then place_order returns
PlaceReportAfter(t) ==
    /\ pc[t] = "p71"
    /\ ReportOrderBookUpdated(t)
    /\ Goto(t, "idle")
    /\ UNCHANGED <<lock, registry, orders, idx, out, attempts>>
    /\ UNCHANGED gas

\* --------------------------------------------------------------- cancel_orders

\* the attempts a cancel_orders call counts for: one per order of its list (one
\* cancel_order_function call each), and one for an empty list
Cost(l) == IF l = <<>> THEN 1 ELSE Len(l)

\* a thread calls cancel_orders(orders): one attempt per order of the list
CallCancelOrders(t) ==
    /\ pc[t] = "idle"
    /\ \E l \in OrderLists :
         /\ attempts + Cost(l) <= MaxAttempts
         /\ attempts' = attempts + Cost(l)
         /\ orders' = [orders EXCEPT ![t] = l]
    /\ Goto(t, "c84")
    /\ trace' = [trace EXCEPT ![t] = <<>>]
    /\ out' = [out EXCEPT ![t] = "none"]
    /\ idx' = [idx EXCEPT ![t] = 0]
    /\ UNCHANGED <<lock, registry>>
    /\ UNCHANGED gas

Range(s) == { s[i] : i \in 1..Len(s) }

\* lines 84-86: with self._lock: every order of the list is marked cancelling
CancelMark(t) ==
    /\ pc[t] = "c84"
    /\ lock = 0
    /\ order_ids_cancelling' = order_ids_cancelling \cup Range(orders[t])
    /\ Log(t, Ev("mark", 0))
    /\ Goto(t, "c88")
    /\ UNCHANGED <<lock, currently_placing_orders, orders_placed,
                   order_ids_cancelled, orders, idx, out, attempts>>
    /\ UNCHANGED gas

\* variant of ForOrderInOrders: the loop is left after an attempt that did
\* not return true
ForOrderInOrders_StopsOnFailure(t, i, tr) ==
    IF i <= Len(orders[t]) /\ (i = 1 \/ out[t] = "true")
      THEN /\ idx' = [idx EXCEPT ![t] = i]
           /\ trace' = [trace EXCEPT ![t] = Append(tr, Ev("cbegin", orders[t][i]))]
           /\ out' = [out EXCEPT ![t] = "none"]
           /\ Goto(t, "c95")
      ELSE /\ idx' = [idx EXCEPT ![t] = 0]
           /\ trace' = [trace EXCEPT ![t] = tr]
           /\ out' = out
           /\ Goto(t, "idle")

\* line 90: for order in orders: the loop goes on with the order at position
\* i, whose cancel_order_function call starts (line 95), or the method returns
ForOrderInOrders(t, i, tr) ==
    IF i <= Len(orders[t])
      THEN /\ idx' = [idx EXCEPT ![t] = i]
           /\ trace' = [trace EXCEPT ![t] = Append(tr, Ev("cbegin", orders[t][i]))]
           /\ out' = [out EXCEPT ![t] = "none"]
           /\ Goto(t, "c95")
      ELSE /\ idx' = [idx EXCEPT ![t] = 0]
           /\ trace' = [trace EXCEPT ![t] = tr]
           /\ out' = out
           /\ Goto(t, "idle")

\* line 88: self._report_order_book_updated(), then the loop is entered
CancelReportBefore(t) ==
    /\ pc[t] = "c88"
    /\ ForOrderInOrders(t, 1, Append(trace[t], Ev("pub", 0)))
    /\ UNCHANGED <<lock, registry, orders, attempts>>
    /\ UNCHANGED gas

\* variant of CancelAttemptEnd: the removal is not in a finally block, an
\* exception of cancel_order_function skips it
CancelAttemptEnd_RaiseSkipsClear(t) ==
    /\ pc[t] = "c95"
    /\ \E r \in CancelOutcomes :
         /\ out' = [out EXCEPT ![t] = r]
         /\ Goto(t, IF r = "true" THEN "c96" ELSE IF r = "false" THEN "c104" ELSE "c110")
    /\ Log(t, Ev("cend", orders[t][idx[t]]))
    /\ UNCHANGED <<lock, registry, orders, idx, attempts>>
    /\ UNCHANGED gas

\* variant of CancelAttemptEnd: the result of cancel_order_function is not
\* tested, a call that returned (true or false) is taken for a confirmation
CancelAttemptEnd_FalseConfirms(t) ==
    /\ pc[t] = "c95"
    /\ \E r \in CancelOutcomes :
         /\ out' = [out EXCEPT ![t] = r]
         /\ Goto(t, IF r \in {"true", "false"} THEN "c96" ELSE "c104")
    /\ Log(t, Ev("cend", orders[t][idx[t]]))
    /\ UNCHANGED <<lock, registry, orders, idx, attempts>>
    /\ UNCHANGED gas

\* line 95: cancel_order_function(order) ends, called WITHOUT the lock (the
\* "with self._lock" of line 93 is commented out): true leads to line 96,
\* false and an exception (caught at line 101) lead to the finally block
CancelAttemptEnd(t) ==
    /\ pc[t] = "c95"
    /\ \E r \in CancelOutcomes :
         /\ out' = [out EXCEPT ![t] = r]
         /\ Goto(t, IF r = "true" THEN "c96" ELSE "c104")
    /\ Log(t, Ev("cend", orders[t][idx[t]]))
    /\ UNCHANGED <<lock, registry, orders, idx, attempts>>
    /\ UNCHANGED gas

\* variant of CancelConfirm: a confirmed cancellation also takes the order
\* with that number out of orders_placed
CancelConfirm_DropsPlaced(t) ==
    /\ pc[t] = "c96"
    /\ lock = 0
    /\ LET id == orders[t][idx[t]]
           Kept(o) == o.no # id
       IN
         /\ order_ids_cancelled' = order_ids_cancelled \cup {id}
         /\ IF id \in order_ids_cancelling
              THEN order_ids_cancelling' = order_ids_cancelling \ {id}
              ELSE order_ids_cancelling' = order_ids_cancelling
         /\ orders_placed' = SelectSeq(orders_placed, Kept)
    /\ Goto(t, "c104")
    /\ UNCHANGED <<lock, currently_placing_orders, orders, idx,
                   trace, out, attempts>>
    /\ UNCHANGED gas

\* lines 96-98: with self._lock: cancelled.add(order_id), then
\* cancelling.remove(order_id); remove raises KeyError on an absent id, after
\* the add, and the except BaseException of line 101 catches it
CancelConfirm(t) ==
    /\ pc[t] = "c96"
    /\ lock = 0
    /\ LET id == orders[t][idx[t]] IN
         /\ order_ids_cancelled' = order_ids_cancelled \cup {id}
         /\ IF id \in order_ids_cancelling
              THEN order_ids_cancelling' = order_ids_cancelling \ {id}
              ELSE order_ids_cancelling' = order_ids_cancelling
    /\ Goto(t, "c104")
    /\ UNCHANGED <<lock, currently_placing_orders, orders_placed, orders, idx,
                   trace, out, attempts>>
    /\ UNCHANGED gas

\* variant of CancelClear: the marker is removed by the confirmation only
CancelClear_KeepsMarker(t) ==
    /\ pc[t] = "c104"
    /\ lock = 0
    /\ Log(t, Ev("clear", orders[t][idx[t]]))
    /\ Goto(t, "c110")
    /\ UNCHANGED <<lock, registry, orders, idx, out, attempts>>
    /\ UNCHANGED gas

\* variant of CancelClear: no except KeyError, the removal of an absent id
\* ends the call with the KeyError
CancelClear_KeyErrorEscapes(t) ==
    /\ pc[t] = "c104"
    /\ lock = 0
    /\ LET id == orders[t][idx[t]] IN
         IF id \in order_ids_cancelling
           THEN /\ order_ids_cancelling' = order_ids_cancelling \ {id}
                /\ Log(t, Ev("clear", id))
                /\ Goto(t, "c110")
           ELSE /\ order_ids_cancelling' = order_ids_cancelling
                /\ trace' = trace
                /\ Goto(t, "raised")
    /\ UNCHANGED <<lock, currently_placing_orders, orders_placed,
                   order_ids_cancelled, orders, idx, out, attempts>>
    /\ UNCHANGED gas

\* variant of CancelClear: after an attempt that did not return true the id
\* is taken out of order_ids_cancelled as well
CancelClear_ForgetsOnFailure(t) ==
    /\ pc[t] = "c104"
    /\ lock = 0
    /\ LET id == orders[t][idx[t]] IN
         /\ IF id \in order_ids_cancelling
              THEN order_ids_cancelling' = order_ids_cancelling \ {id}
              ELSE order_ids_cancelling' = order_ids_cancelling
         /\ IF out[t] = "true"
              THEN order_ids_cancelled' = order_ids_cancelled
              ELSE order_ids_cancelled' = order_ids_cancelled \ {id}
         /\ Log(t, Ev("clear", id))
    /\ Goto(t, "c110")
    /\ UNCHANGED <<lock, currently_placing_orders, orders_placed,
                   orders, idx, out, attempts>>
    /\ UNCHANGED gas

\* lines 103-109: finally: with self._lock: cancelling.remove(order_id); the
\* KeyError of an absent id is caught and logged (lines 107-109)
CancelClear(t) ==
    /\ pc[t] = "c104"
    /\ lock = 0
    /\ LET id == orders[t][idx[t]] IN
         /\ IF id \in order_ids_cancelling
              THEN order_ids_cancelling' = order_ids_cancelling \ {id}
              ELSE order_ids_cancelling' = order_ids_cancelling
         /\ Log(t, Ev("clear", id))
    /\ Goto(t, "c110")
    /\ UNCHANGED <<lock, currently_placing_orders, orders_placed,
                   order_ids_cancelled, orders, idx, out, attempts>>
    /\ UNCHANGED gas

\* variant of CancelReportAfter: no snapshot after the terminal outcome
CancelReportAfter_Silent(t) ==
    /\ pc[t] = "c110"
    /\ ForOrderInOrders(t, idx[t] + 1, trace[t])
    /\ UNCHANGED <<lock, registry, orders, attempts>>
    /\ UNCHANGED gas

\* line 110: self._report_order_book_updated(), then the next order
CancelReportAfter(t) ==
    /\ pc[t] = "c110"
    /\ ForOrderInOrders(t, idx[t] + 1, Append(trace[t], Ev("pub", 0)))
    /\ UNCHANGED <<lock, registry, orders, attempts>>
    /\ UNCHANGED gas

Next ==
    \E t \in Threads :
        \/ CallPlaceOrder(t)
        \/ PlaceIncrement(t)
        \/ PlaceReportBefore(t)
        \/ PlaceAttemptBegin(t)
        \/ PlaceAttemptEnd(t)
        \/ PlaceDecrement(t)
        \/ PlaceReportAfter(t)
        \/ CallCancelOrders(t)
        \/ CancelMark(t)
        \/ CancelReportBefore(t)
        \/ CancelAttemptEnd(t)
        \/ CancelConfirm(t)
        \/ CancelClear(t)
        \/ CancelReportAfter(t)

Spec == Init /\ [][Next]_vars

\* -------------------------------------------------------------- SmartGasPrice

\* ---- bounds: the longest time_elapsed handed to get_gas_price, in seconds,
\* and the largest number of wei a feed's fast price has beyond whole gwei ----
MaxElapsed == 360
MaxFastWei == 3

GWEI == 1000000000

\* An amount of wei goes beyond the integers of the model checker (100 gwei are
\* 10^11 wei): it is kept as <<g, w>>, g whole gwei and w wei, 0 <= w < GWEI,
\* and the arithmetic of python's unbounded integers is done on the two parts.
Wei(g, w) == <<g + (w \div GWEI), w % GWEI>>

\* n * self.GWEI
Gwei(n) == <<n, 0>>

\* a + b
Add(a, b) == Wei(a[1] + b[1], a[2] + b[2])

\* n * a, for an amount a of whole gwei
Scale(n, a) == Wei(n * a[1], n * a[2])

\* a <= b
Leq(a, b) == a[1] < b[1] \/ (a[1] = b[1] /\ a[2] <= b[2])

\* min(a, b)
Min(a, b) == IF Leq(a, b) THEN a ELSE b

\* int(a / b): the quotient, truncated towards zero
IntQuotient(a, b) == IF a >= 0 THEN a \div b ELSE -((-a) \div b)

\* ---- fast_price*1.1 is a product of doubles: fast_price is converted to
\* the nearest double, multiplied by the double next to 1.1, and the product
\* is rounded to the nearest double (53 significant bits, ties to even).  The
\* numbers involved have up to 113 bits: they are kept as sequences of limbs
\* of 15 bits, the lowest first, without leading zero limbs ----
Limb == 2^15

RECURSIVE Trim(_)
Trim(a) == IF a # <<>> /\ a[Len(a)] = 0 THEN Trim(SubSeq(a, 1, Len(a) - 1)) ELSE a

\* the limbs of an integer n >= 0
RECURSIVE Limbs(_)
Limbs(n) == IF n = 0 THEN <<>> ELSE <<n % Limb>> \o Limbs(n \div Limb)

\* the integer of the limbs a
RECURSIVE IntOf(_)
IntOf(a) == IF a = <<>> THEN 0 ELSE a[1] + Limb * IntOf(Tail(a))

\* a * m + c, for m and c below a limb
RECURSIVE TimesSmall(_, _, _)
TimesSmall(a, m, c) ==
    IF a = <<>>
      THEN Limbs(c)
      ELSE <<(a[1] * m + c) % Limb>> \o TimesSmall(Tail(a), m, (a[1] * m + c) \div Limb)

\* a + b + c, for a carry c of 0 or 1
RECURSIVE Plus(_, _, _)
Plus(a, b, c) ==
    IF a = <<>> /\ b = <<>>
      THEN Limbs(c)
      ELSE LET x == IF a = <<>> THEN 0 ELSE a[1]
               y == IF b = <<>> THEN 0 ELSE b[1]
           IN  <<(x + y + c) % Limb>>
                 \o Plus(IF a = <<>> THEN a ELSE Tail(a),
                         IF b = <<>> THEN b ELSE Tail(b), (x + y + c) \div Limb)

\* a * b
RECURSIVE Times(_, _)
Times(a, b) ==
    IF b = <<>>
      THEN <<>>
      ELSE Trim(Plus(TimesSmall(a, b[1], 0), <<0>> \o Times(a, Tail(b)), 0))

\* the number of bits of an integer below a limb, of the limbs a
RECURSIVE Bits(_)
Bits(n) == IF n = 0 THEN 0 ELSE 1 + Bits(n \div 2)

BitLength(a) == IF a = <<>> THEN 0 ELSE 15 * (Len(a) - 1) + Bits(a[Len(a)])

\* a shifted right by n bits (the bits shifted out are dropped), shifted left
ShiftRight(a, n) ==
    LET d == IF n \div 15 >= Len(a) THEN <<>> ELSE SubSeq(a, (n \div 15) + 1, Len(a))
        r == n % 15
    IN  Trim([j \in 1..Len(d) |->
                (d[j] \div 2^r) + ((IF j < Len(d) THEN d[j + 1] ELSE 0) % 2^r) * 2^(15 - r)])

ShiftLeft(a, n) ==
    IF a = <<>> THEN a ELSE [j \in 1..(n \div 15) |-> 0] \o TimesSmall(a, 2^(n % 15), 0)

\* bit i of a (bit 0 is the lowest); the n lowest bits of a are all 0
BitAt(a, i) == IF i \div 15 >= Len(a) THEN 0 ELSE (a[(i \div 15) + 1] \div 2^(i % 15)) % 2

LowBitsZero(a, n) ==
    /\ \A j \in 1..(n \div 15) : j <= Len(a) => a[j] = 0
    /\ n \div 15 < Len(a) => a[(n \div 15) + 1] % 2^(n % 15) = 0

\* a rounded to 53 significant bits, ties to even: <<m, n>> stands for m * 2^n
RoundToDouble(a) ==
    IF BitLength(a) <= 53
      THEN <<a, 0>>
      ELSE LET n == BitLength(a) - 53
               q == ShiftRight(a, n)
               up == BitAt(a, n - 1) = 1 /\ (~LowBitsZero(a, n - 1) \/ BitAt(q, 0) = 1)
           IN  <<IF up THEN Plus(q, <<>>, 1) ELSE q, n>>

\* <<quotient, remainder>> of a by d, for d of at most 16 bits
RECURSIVE DivSmall(_, _)
DivSmall(a, d) ==
    IF a = <<>>
      THEN <<<<>>, 0>>
      ELSE LET hi == DivSmall(Tail(a), d)
               t == hi[2] * Limb + a[1]
           IN  <<<<t \div d>> \o hi[1], t % d>>

\* the limbs of an amount <<g, w>>, and back (GWEI = 1000 * 1000 * 1000)
NatOfWei(f) ==
    Plus(TimesSmall(TimesSmall(TimesSmall(Limbs(f[1]), 1000, 0), 1000, 0), 1000, 0),
         Limbs(f[2]), 0)

WeiOfNat(a) ==
    LET q1 == DivSmall(a, 1000)
        q2 == DivSmall(Trim(q1[1]), 1000)
        q3 == DivSmall(Trim(q2[1]), 1000)
    IN  <<IntOf(Trim(q3[1])), q1[2] + 1000 * q2[2] + 1000000 * q3[2]>>

\* the double next to 1.1 is 4953959590107546 * 2^-52 (0x1.199999999999ap+0)
Double1_1 == NatOfWei(<<4953959, 590107546>>)

\* variant of IntTimes1_1: the exact product, rounded up to the next wei
IntTimes1_1_RoundsUp(f) ==
    Add(Add(f, <<f[1] \div 10, (f[1] % 10) * (GWEI \div 10) + (f[2] \div 10)>>),
        IF f[2] % 10 = 0 THEN <<0, 0>> ELSE <<0, 1>>)

\* int(fast_price*1.1) (line 77): float(fast_price) is m1 * 2^n1, its product
\* with 1.1 is m1 * Double1_1 * 2^(n1 - 52), rounded to the double
\* m2 * 2^(n1 + n2 - 52), and int() drops what is below a whole wei
IntTimes1_1(f) ==
    LET x == RoundToDouble(NatOfWei(f))
        p == RoundToDouble(Times(x[1], Double1_1))
        e == x[2] + p[2] - 52
    IN  WeiOfNat(IF e >= 0 THEN ShiftLeft(p[1], e) ELSE ShiftRight(p[1], -e))

\* pymaker's IncreasingGasPrice(initial_price, increase_by, every_secs,
\* max_price).get_gas_price(time_elapsed)
IncreasingGasPrice(initial_price, increase_by, every, maximum, elapsed) ==
    Min(Add(initial_price, Scale(IntQuotient(elapsed, every), increase_by)), maximum)

\* variant of get_gas_price: the price goes up every 60 seconds without a cap
get_gas_price_Uncapped(fast, elapsed) ==
    IF fast # None
      THEN Add(IntTimes1_1(fast), Scale(IntQuotient(elapsed, 60), Gwei(10)))
      ELSE IncreasingGasPrice(Gwei(20), Gwei(10), 60, Gwei(100), elapsed)

\* lines 73-83: what get_gas_price returns for the fast price the feed gave
\* (None: the feed has no price) and the time elapsed
get_gas_price(fast, elapsed) ==
    IF fast # None
      THEN Min(Add(IntTimes1_1(fast), Scale(IntQuotient(elapsed, 60), Gwei(10))),
               Add(IntTimes1_1(fast), Gwei(50)))
      ELSE IncreasingGasPrice(Gwei(20), Gwei(10), 60, Gwei(100), elapsed)

\* the command line (add_gas_arguments, lines 26-42): one of the four
\* exclusive sources or none of them, with --gas-replace-after and
\* --gas-maximum (in gwei) left at their defaults, 42 and 8000, or set to
\* 60 and 100; --gas-initial-multiplier is 1.0
GasArguments ==
    { [ source            |-> s,
        fixed_gas_price   |-> 20,
        gas_replace_after |-> c[1],
        gas_maximum       |-> c[2] ] :
      s \in {"ethgasstation", "etherchain", "poanetwork", "fixed", "none"},
      c \in {<<42, 8000>>, <<60, 100>>} }

\* the times a caller hands to get_gas_price: whole seconds since the
\* transaction was first sent
Elapsed == 0..MaxElapsed

\* the fast prices a feed can give, in wei: around 0, 9 and 100 gwei, one
\* wei below a whole gwei, and two prices high enough for the rounding of the
\* double product to show: 511772684928469 wei (the product is rounded to the
\* double above it) and 10001195966607681 wei (more than 2^53: rounded below)
FastPrices ==
    { Wei(g, w) : g \in {0, 9, 100}, w \in (0..MaxFastWei) \cup {GWEI - 1} }
        \cup { <<511772, 684928469>>, <<10001195, 966607681>> }

\* lines 54-69: SmartGasPrice(web3) is constructed from the arguments, and
\* get_gas_price(time_elapsed) is called.  The construction has two outcomes.
\* gas.py does not define the name "arguments" that line 58 reads (nor does
\* it import argparse, which line 26 names): as the file stands the
\* construction ends at line 58 with NameError for every source, after lines
\* 56-57, and there is no instance to call.  In a program that binds both
\* names in the module (arguments_defined) lines 58-69 run: for
\* --poanetwork-gas-price line 63 reads arguments.poanetwork_url, which
\* add_gas_arguments does not define, and the construction ends with
\* AttributeError, again after lines 56-57; for the other sources the
\* instance is constructed.
GasInit ==
    /\ ManagerInit
    /\ \E a \in GasArguments, arguments_defined \in BOOLEAN :
         IF ~arguments_defined \/ a.source = "poanetwork"
           THEN /\ gas_station = None
                /\ fixed_gas = None
                /\ every_secs = 0
                /\ max_price = 0
                /\ gpc = "init_raised"
                /\ time_elapsed = 0
           ELSE /\ gas_station = IF a.source = "ethgasstation" THEN <<"EthGasStation">>
                                 ELSE IF a.source = "etherchain" THEN <<"EtherchainOrg">>
                                 ELSE None
                /\ fixed_gas = IF a.source = "fixed" THEN Gwei(a.fixed_gas_price) ELSE None
                /\ every_secs = a.gas_replace_after
                /\ max_price = a.gas_maximum
                /\ gpc = "g72"
                /\ time_elapsed \in Elapsed
    /\ fast_price = None
    /\ gas_price = None

\* line 72: fast_price = self.gas_station.fast_price(): the feed gives a price
\* or None; without a feed (self.gas_station is None) the attribute access
\* raises AttributeError
FastPriceSample ==
    /\ gpc = "g72"
    /\ IF gas_station = None
         THEN /\ gpc' = "raised"
              /\ fast_price' = fast_price
         ELSE /\ gpc' = "g73"
              /\ fast_price' \in FastPrices \cup {None}
    /\ UNCHANGED <<gas_station, fixed_gas, every_secs, max_price, time_elapsed,
                   gas_price, manager>>

\* lines 73-83: the price is computed and returned
ReturnGasPrice ==
    /\ gpc = "g73"
    /\ gas_price' = get_gas_price(fast_price, time_elapsed)
    /\ gpc' = "returned"
    /\ UNCHANGED <<gas_station, fixed_gas, every_secs, max_price, time_elapsed,
                   fast_price, manager>>

GasNext ==
    \/ FastPriceSample
    \/ ReturnGasPrice

GasSpec == GasInit /\ [][GasNext]_vars

\* ------------------------------------------------------------------ properties

CancelPCs == {"c84", "c88", "c95", "c96", "c104", "c110"}

Evs(tr) == [i \in 1..Len(tr) |-> tr[i].ev]

Count(tr, e) == Cardinality({ i \in 1..Len(tr) : tr[i].ev = e })

\* thread t is in / has returned from a place_order call, a cancel_orders call
InPlace(t)  == trace[t] # <<>> /\ trace[t][1].ev = "inc"
InCancel(t) == trace[t] # <<>> /\ trace[t][1].ev = "mark"
ReturnedPlace(t)  == pc[t] = "idle" /\ InPlace(t)
ReturnedCancel(t) == pc[t] = "idle" /\ InCancel(t)

\* C1: N callers of place_order execute N factories, one per call, and no two
\* factories execute at the same time (at most one thread is between the start
\* and the end of its factory).
C1_PlacementSerialized ==
    /\ \A t, u \in Threads : (pc[t] = "p61" /\ pc[u] = "p61") => t = u
    /\ \A t \in Threads :
         ReturnedPlace(t) => Count(trace[t], "begin") = 1 /\ Count(trace[t], "end") = 1

\* two callers at once: one inside its factory, the other stopped before its own
C1_Witness ==
    \E t, u \in Threads : t # u /\ pc[t] = "p61" /\ pc[u] = "p59"

\* C2 (as claimed): no cancel_function call executes at the same time as a
\* placement factory or as the cancel_function call of another cancel_orders
\* invocation.
C2_AttemptsExclusive ==
    \A t, u \in Threads :
        (t # u /\ pc[t] = "c95") => pc[u] \notin {"p61", "c95"}

\* C3: once every call has returned, currently_placing_orders = 0, whatever the
\* factories did (order, None, exception).
C3_CounterBalance ==
    (\A t \in Threads : pc[t] \in {"idle", "raised"}) => currently_placing_orders = 0

\* every call returned, a raising factory and a successful one among them
C3_Witness ==
    /\ \A t \in Threads : ReturnedPlace(t)
    /\ \E t, u \in Threads : out[t] = "raise" /\ out[u] = "order"

\* C4: a raising factory: the step that ends the factory with an exception goes
\* on to the finally block (nothing propagates), no step of the call touches
\* orders_placed, order_ids_cancelling or order_ids_cancelled, and the call
\* returns having incremented and decremented the counter once each.
C4_RaiseAbsorbed ==
    [][\A t \in Threads :
          /\ (pc[t] = "p61" /\ pc'[t] # "p61" /\ out'[t] = "raise")
                => /\ pc'[t] = "p69"
                   /\ UNCHANGED <<orders_placed, order_ids_cancelling,
                                  order_ids_cancelled, currently_placing_orders>>
          /\ (pc[t] \in {"p69", "p71"} /\ pc'[t] # pc[t] /\ out[t] = "raise")
                => /\ pc'[t] # "raised"
                   /\ UNCHANGED <<orders_placed, order_ids_cancelling,
                                  order_ids_cancelled>>
                   /\ pc'[t] = "idle" => /\ Count(trace'[t], "inc") = 1
                                         /\ Count(trace'[t], "dec") = 1
                                         /\ currently_placing_orders' = currently_placing_orders
                   /\ pc[t] = "p69" => currently_placing_orders' = currently_placing_orders - 1
      ]_vars

\* a place_order call whose factory raised has returned
C4_Witness ==
    \E t \in Threads : ReturnedPlace(t) /\ out[t] = "raise"

\* C5: a place_order call publishes one snapshot between the increment and the
\* start of the attempt, one after the decrement, and no other: while the
\* factory executes the call has done inc, pub, begin, and at return inc, pub,
\* begin, end, dec, pub.
PlaceSteps == <<"inc", "pub", "begin", "end", "dec", "pub">>

C5_PlacePublishes ==
    \A t \in Threads :
        /\ pc[t] = "p61" => Evs(trace[t]) = SubSeq(PlaceSteps, 1, 3)
        /\ ReturnedPlace(t) => Evs(trace[t]) = PlaceSteps

\* a call whose factory produced no order has returned, and so has another
C5_Witness ==
    \E t, u \in Threads :
        /\ t # u /\ ReturnedPlace(t) /\ ReturnedPlace(u)
        /\ out[t] \in {"null", "raise"}

\* the order thread t is processing in its cancel_orders loop
CurrentId(t) == orders[t][idx[t]]

\* another cancel_orders call naming id is in progress
OtherCancelNaming(t, id) ==
    \E u \in Threads :
        u # t /\ pc[u] \in CancelPCs /\ id \in Range(orders[u])

\* C6: when the terminal snapshot of an order is published (line 110) and no
\* other cancel_orders call naming the order is in progress: the id is not in
\* order_ids_cancelling, and it is in order_ids_cancelled if cancel_function
\* returned true; no step of an attempt whose cancel_function returned false
\* or raised adds anything to order_ids_cancelled.
C6_TerminalOutcome ==
    /\ [](\A t \in Threads :
            (pc[t] = "c110" /\ ~OtherCancelNaming(t, CurrentId(t)))
                => /\ CurrentId(t) \notin order_ids_cancelling
                   /\ out[t] = "true" => CurrentId(t) \in order_ids_cancelled)
    /\ [][\A t \in Threads :
            (/\ pc[t] \in {"c95", "c96", "c104", "c110"}
             /\ pc'[t] # pc[t]
             /\ IF pc[t] = "c95" THEN out'[t] # "true" ELSE out[t] # "true")
                => order_ids_cancelled' = order_ids_cancelled]_vars

\* the terminal snapshot of a confirmed cancellation is due, no other call
\* naming the order in progress, after a call whose cancellation failed
C6_Witness ==
    \E t, u \in Threads :
        /\ pc[t] = "c110" /\ out[t] = "true" /\ ~OtherCancelNaming(t, CurrentId(t))
        /\ ReturnedCancel(u) /\ out[u] \in {"false", "raise"}
        /\ CurrentId(t) \in Range(orders[u])

\* C7 (as claimed): no order_id is in both order_ids_cancelling and
\* order_ids_cancelled.
C7_CancellingCancelledDisjoint ==
    order_ids_cancelling \cap order_ids_cancelled = {}

\* C8: cancel_orders never ends with an exception: the removal of an id that
\* is absent from order_ids_cancelling is absorbed.
C8_CancelNeverRaises ==
    \A t \in Threads : InCancel(t) => pc[t] # "raised"

\* two calls in progress for the same order, both confirmed and both past
\* their finally block: four removals of an id that was added at most twice
C8_Witness ==
    \E t, u \in Threads :
        /\ t # u /\ pc[t] = "c110" /\ pc[u] = "c110"
        /\ CurrentId(t) = CurrentId(u)
        /\ out[t] = "true" /\ out[u] = "true"
        /\ order_ids_cancelling = {}

\* C9: once every cancel_orders call has returned, order_ids_cancelling is empty.
C9_NoLeakedMarker ==
    (\A t \in Threads : pc[t] \notin CancelPCs) => order_ids_cancelling = {}

\* two calls naming a common order have returned, one of them after a
\* cancel_function that raised
C9_Witness ==
    \E t, u \in Threads :
        /\ t # u /\ ReturnedCancel(t) /\ ReturnedCancel(u)
        /\ Range(orders[t]) \cap Range(orders[u]) # {}
        /\ out[t] = "raise"

\* C10: a cancel_orders call publishes a snapshot right after marking (also for
\* an empty list), and for each order one snapshot after the marker was
\* cleared, which on success is after the id was added to
\* order_ids_cancelled: at return the call has done mark, pub and then, for each
\* order of the list in turn, cbegin, cend, clear, pub.
C10_CancelPublishes ==
    \A t \in Threads :
        /\ (pc[t] = "c110" /\ out[t] = "true")
              => /\ CurrentId(t) \in order_ids_cancelled
                 /\ trace[t][Len(trace[t])] = Ev("clear", CurrentId(t))
        /\ ReturnedCancel(t) =>
              LET tr == trace[t] IN
              /\ Len(tr) = 2 + 4 * Len(orders[t])
              /\ tr[2].ev = "pub"
              /\ \A k \in 1..Len(orders[t]) :
                    /\ tr[4*k - 1] = Ev("cbegin", orders[t][k])
                    /\ tr[4*k].ev = "cend"
                    /\ tr[4*k + 1] = Ev("clear", orders[t][k])
                    /\ tr[4*k + 2].ev = "pub"

\* a call for an empty list has returned, and so has a call whose
\* cancel_function raised
C10_Witness ==
    \E t, u \in Threads :
        /\ ReturnedCancel(t) /\ orders[t] = <<>>
        /\ ReturnedCancel(u) /\ orders[u] # <<>> /\ out[u] = "raise"

\* the positions of orders_placed that hold an order placed by thread t
PlacedBy(t) == { i \in 1..Len(orders_placed) : orders_placed[i].by = t }

\* C11: the place_order calls of one thread, made one after the other: a
\* factory of the thread starts only in a call that has done nothing but
\* increment and publish (the call before it is over) and after every order
\* the thread placed before; the end of a factory appends its order at the end
\* of orders_placed if it returned one and leaves orders_placed alone
\* otherwise; so the orders of a thread stand in orders_placed in call order.
C11_SingleThreadOrder ==
    /\ [](\A t \in Threads : \A i, j \in PlacedBy(t) :
             i < j => orders_placed[i].no < orders_placed[j].no)
    /\ [][\A t \in Threads :
            /\ (pc[t] # "p61" /\ pc'[t] = "p61")
                  => /\ Evs(trace[t]) = <<"inc", "pub">>
                     /\ \A i \in PlacedBy(t) : orders_placed[i].no < attempts
            /\ (pc[t] = "p61" /\ pc'[t] # "p61")
                  => orders_placed' = IF out'[t] = "order"
                                        THEN Append(orders_placed, NewOrder(t))
                                        ELSE orders_placed
      ]_vars

\* a thread has returned from its second call, both factories returned an order
C11_Witness ==
    \E t \in Threads : ReturnedPlace(t) /\ Cardinality(PlacedBy(t)) = 2

\* ---- exact amounts: <<g, w, d>> is g gwei, w wei and d tenths of a wei ----

\* fast*1.1, not rounded: fast + fast/10
Times1_1(f) ==
    <<Wei(f[1] + (f[1] \div 10), f[2] + (f[1] % 10) * (GWEI \div 10) + (f[2] \div 10))[1],
      Wei(f[1] + (f[1] \div 10), f[2] + (f[1] % 10) * (GWEI \div 10) + (f[2] \div 10))[2],
      f[2] % 10>>

Exact(a) == <<a[1], a[2], 0>>

Truncated(d) == <<d[1], d[2]>>

PlusGwei(d, n) == <<d[1] + n, d[2], d[3]>>

LeqExact(a, b) ==
    \/ a[1] < b[1]
    \/ a[1] = b[1] /\ a[2] < b[2]
    \/ a[1] = b[1] /\ a[2] = b[2] /\ a[3] <= b[3]

MinExact(a, b) == IF LeqExact(a, b) THEN a ELSE b

\* a get_gas_price call has returned, the feed had (had not) given a fast price
ReturnedWithSample == gpc = "returned" /\ fast_price # None
ReturnedNoSample   == gpc = "returned" /\ fast_price = None

\* C12 (as claimed): with a fast price of the feed, get_gas_price(elapsed) is
\* min(fast*1.1 + floor(elapsed/60)*10 gwei, fast*1.1 + 50 gwei), the product
\* fast*1.1 taken exactly.
C12_ExactFormula ==
    ReturnedWithSample =>
        Exact(gas_price) =
            MinExact(PlusGwei(Times1_1(fast_price), (time_elapsed \div 60) * 10),
                     PlusGwei(Times1_1(fast_price), 50))

\* a fast price whose product with 1.1 is below 2^49: the double product is
\* then less than a tenth of a wei away from the exact one
InExactRange(f) == Leq(f, <<511772, 684928468>>)

\* C12 (amended): with a fast price of the feed, a whole number of wei,
\* get_gas_price(elapsed) is min(T + floor(elapsed/60)*10 gwei, T + 50 gwei)
\* for T = int(fast*1.1), the product of doubles truncated to whole wei; for
\* a fast price below 511772684928469 wei T is the exact product truncated,
\* and the price is the exact formula when fast is also a multiple of 10 wei;
\* fast = 100 gwei and elapsed = 125 s give 130 gwei.
C12_TruncatedFormula ==
    ReturnedWithSample =>
        LET T == IntTimes1_1(fast_price) IN
        /\ gas_price = Min(Add(T, Gwei((time_elapsed \div 60) * 10)), Add(T, Gwei(50)))
        /\ InExactRange(fast_price) => T = Truncated(Times1_1(fast_price))
        /\ (InExactRange(fast_price) /\ fast_price[2] % 10 = 0) => C12_ExactFormula
        /\ (fast_price = Gwei(100) /\ time_elapsed = 125) => gas_price = Gwei(130)

\* a call after 125 s returned, for a fast price of 100 gwei and 3 wei: the
\* price is 130 gwei and 3 wei, 0.3 wei below the exact formula
C12_Witness ==
    /\ ReturnedWithSample
    /\ fast_price = <<100, 3>> /\ time_elapsed = 125
    /\ gas_price = <<130, 3>>

\* the later times the price of a call is compared with: the next second and
\* the longest time (a price that does not decrease from any second to the
\* next does not decrease from any time to a later one)
LaterTimes == { e \in {time_elapsed + 1, MaxElapsed} : time_elapsed < e /\ e <= MaxElapsed }

\* C13 (as claimed): for a fast price of the feed, get_gas_price does not
\* decrease with the time elapsed and is at most fast*1.1 + 50 gwei.
C13_MonotoneBounded ==
    ReturnedWithSample =>
        /\ \A e \in LaterTimes : Leq(gas_price, get_gas_price(fast_price, e))
        /\ LeqExact(Exact(gas_price), PlusGwei(Times1_1(fast_price), 50))

\* C13 (amended): for a fast price of the feed, get_gas_price does not
\* decrease with the time elapsed and is at most int(fast*1.1) + 50 gwei,
\* which is at most fast*1.1 + 50 gwei for a fast price below
\* 511772684928469 wei.
C13_MonotoneBoundedInRange ==
    ReturnedWithSample =>
        /\ \A e \in LaterTimes : Leq(gas_price, get_gas_price(fast_price, e))
        /\ Leq(gas_price, Add(IntTimes1_1(fast_price), Gwei(50)))
        /\ InExactRange(fast_price)
              => LeqExact(Exact(gas_price), PlusGwei(Times1_1(fast_price), 50))

\* a call returned the highest price for the fast price 511772684928469 wei:
\* 562999953421316 wei, a tenth of a wei above fast*1.1 + 50 gwei
C13_Witness ==
    /\ ReturnedWithSample
    /\ time_elapsed >= 300
    /\ fast_price = <<511772, 684928469>>
    /\ gas_price = <<562999, 953421316>>

\* C14 (as claimed): without a fast price of the feed, get_gas_price(elapsed)
\* is min(initial + floor(elapsed/every_secs)*increase, max_price) for the
\* every_secs and the max_price (in gwei) of the instance, initial = 20 gwei
\* and increase = 10 gwei.
C14_ConfiguredFallback ==
    ReturnedNoSample =>
        gas_price = IncreasingGasPrice(Gwei(20), Gwei(10), every_secs,
                                       Gwei(max_price), time_elapsed)

\* the threads whose place_order call has incremented the counter and has not
\* decremented it yet
Incremented == { t \in Threads : pc[t] \in {"p57", "p59", "p61", "p69"} }

\* C15: currently_placing_orders is never negative and is the number of
\* place_order calls that have incremented and not yet decremented it, which
\* is at least the number of factories executing; a call has incremented once
\* and not decremented while its factory executes, and at return it has
\* incremented once, before the factory began, and decremented once, after
\* the factory ended, whatever the factory did.
C15_CounterCountsCalls ==
    /\ currently_placing_orders >= 0
    /\ currently_placing_orders = Cardinality(Incremented)
    /\ currently_placing_orders >= Cardinality({ t \in Threads : pc[t] = "p61" })
    /\ \A t \in Threads :
         /\ pc[t] = "p61" => /\ Count(trace[t], "inc") = 1
                             /\ Count(trace[t], "dec") = 0
         /\ ReturnedPlace(t) =>
               /\ Count(trace[t], "inc") = 1
               /\ Count(trace[t], "dec") = 1
               /\ \E i, j, k, l \in 1..Len(trace[t]) :
                     /\ i < j /\ j < k /\ k < l
                     /\ trace[t][i].ev = "inc" /\ trace[t][j].ev = "begin"
                     /\ trace[t][k].ev = "end" /\ trace[t][l].ev = "dec"

\* a call whose factory raised has returned, the factory of another call
\* executes: the counter is 1
C15_Witness ==
    /\ currently_placing_orders = 1
    /\ \E t, u \in Threads :
         pc[t] = "p61" /\ ReturnedPlace(u) /\ out[u] = "raise"

\* C16: no step takes an id out of order_ids_cancelled: an order that is
\* cancelled stays cancelled, whatever calls follow.
C16_CancelledTerminal ==
    [][order_ids_cancelled \subseteq order_ids_cancelled']_vars

\* a later attempt on a cancelled order did not return true and has gone
\* through its finally block
C16_Witness ==
    \E t \in Threads :
        /\ pc[t] = "c110" /\ out[t] \in {"false", "raise"}
        /\ CurrentId(t) \in order_ids_cancelled

\* C17: order_ids_cancelled is empty at first, and a step that adds an id to
\* it is the step of a call whose cancel_order_function call for that id has
\* just ended and returned true; a call whose attempt returned false or raised
\* adds nothing.
C17_CancelledOnlyAfterTrue ==
    /\ order_ids_cancelled = {}
    /\ [][\A id \in OrderIds :
            (id \notin order_ids_cancelled /\ id \in order_ids_cancelled')
                => \E t \in Threads :
                      /\ pc[t] = "c96" /\ pc'[t] = "c104"
                      /\ CurrentId(t) = id
                      /\ out[t] = "true"
                      /\ trace[t][Len(trace[t])] = Ev("cend", id)
      ]_vars

\* a call for two orders has returned: the first is not cancelled (its attempt
\* did not return true), the second is
C17_Witness ==
    \E t \in Threads :
        /\ ReturnedCancel(t) /\ Len(orders[t]) = 2
        /\ orders[t][1] \notin order_ids_cancelled
        /\ orders[t][2] \in order_ids_cancelled

\* the starts and ends of the cancel_order_function calls of thread t's call
IsAttemptEvent(e) == e.ev \in {"cbegin", "cend"}
AttemptEvents(t) == SelectSeq(trace[t], IsAttemptEvent)

\* C18: the cancel_order_function calls of a cancel_orders call are, in turn,
\* the start and the end of the call for the first order of the list, of the
\* call for the second, and so on; while the call for the order at position
\* idx executes, the calls for the orders before it have ended and none for a
\* later order has started; at return every order of the list has been
\* attempted once, whatever the attempts returned.
C18_SequentialAttempts ==
    \A t \in Threads :
        InCancel(t) =>
            LET a == AttemptEvents(t) IN
            /\ \A i \in 1..Len(a) :
                  a[i] = Ev(IF i % 2 = 1 THEN "cbegin" ELSE "cend",
                            orders[t][(i + 1) \div 2])
            /\ pc[t] = "c95" => Len(a) = 2 * idx[t] - 1
            /\ pc[t] \in {"c96", "c104", "c110"} => Len(a) = 2 * idx[t]
            /\ pc[t] = "idle" => Len(a) = 2 * Len(orders[t])

\* the attempt for the second order of a list executes, the attempt for the
\* first did not return true
C18_Witness ==
    \E t \in Threads :
        /\ pc[t] = "c95" /\ idx[t] = 2
        /\ orders[t][1] \notin order_ids_cancelled

\* thread t takes a step of a place_order call, of a cancel_orders call
PlaceStep(t) ==
    pc'[t] # pc[t] /\ (pc[t] \in {"p53", "p57", "p59", "p61", "p69", "p71"} \/ pc'[t] = "p53")
CancelStep(t) ==
    pc'[t] # pc[t] /\ (pc[t] \in CancelPCs \/ pc'[t] = "c84")

\* C19: a step changes orders_placed only by appending one order, and it is
\* then the end of a factory that returned an order; no step of a cancel_orders
\* call changes orders_placed or currently_placing_orders, a successful
\* cancellation included; no step of a place_order call changes
\* order_ids_cancelling or order_ids_cancelled.
C19_FrameConditions ==
    [][/\ orders_placed' # orders_placed
            => /\ Len(orders_placed') = Len(orders_placed) + 1
               /\ SubSeq(orders_placed', 1, Len(orders_placed)) = orders_placed
               /\ \E t \in Threads :
                     pc[t] = "p61" /\ pc'[t] = "p69" /\ out'[t] = "order"
       /\ \A t \in Threads :
            /\ CancelStep(t) => UNCHANGED <<orders_placed, currently_placing_orders>>
            /\ PlaceStep(t) => UNCHANGED <<order_ids_cancelling, order_ids_cancelled>>
      ]_vars

\* a cancel_orders call whose last attempt was confirmed has returned, with
\* an order in orders_placed
C19_Witness ==
    \E t \in Threads :
        ReturnedCancel(t) /\ out[t] = "true" /\ orders_placed # <<>>

\* C20 (as claimed): while cancel_order_function executes for an order, the
\* id of the order is in order_ids_cancelling.
C20_MarkedWhileExecuting ==
    \A t \in Threads :
        pc[t] = "c95" => CurrentId(t) \in order_ids_cancelling

\* C21 (as claimed): get_gas_price returns a price and never ends with an
\* exception, whatever source the instance was constructed for and whether
\* or not the feed has a fast price.
C21_NeverRaises ==
    /\ gpc # "raised"
    /\ gpc = "returned" => gas_price # None

====
